---- MODULE Spec2Model ----
(***************************************************************************)
(* FileScanner (src/lang/rust/src/main.rs): main enumerates a directory    *)
(* tree with traverse_files, processes every enumerated path in parallel   *)
(* with process_file (metadata, streaming md5/sha1/sha256), appends the    *)
(* successful records to a mutex-guarded vector and writes the document.   *)
(***************************************************************************)
EXTENDS Integers, Sequences, FiniteSets, TLC

VARIABLES
    kind,           \* filesystem: entry -> "file" | "dir" (entries that exist)
    content,        \* filesystem: regular file -> its bytes
    badName,        \* filesystem: entries whose name is not valid UTF-8
    fsChanges,      \* number of changes the environment made during the run
    scan_sub_dirs,  \* main: the --sub-dirs flag
    pc,             \* main: position of the main thread
    stack,          \* traverse_files: the call stack, one frame per active call
    files,          \* main: the Vec<PathBuf> filled by traverse_files
    errDir,         \* the directory whose listing failed, <<>> if none did
    tpc,            \* per path index: position of the for_each closure
    calls,          \* per path index: number of process_file calls made
    meta,           \* per path index: process_file's metadata locals
    off,            \* per path index: read position of the open file
    buffer,         \* per path index: process_file's buffer
    ctx,            \* per path index: the three hash contexts
    result,         \* per path index: <<data>> once process_file returned Ok
    lock,           \* holder of the Mutex of file_data (0: free)
    file_data,      \* the shared Vec<FileData>
    output_data,    \* main: the OutputData built after the join
    written,        \* the documents written to the output file, in order
    printed         \* whether "Done!" was printed

vars == <<kind, content, badName, fsChanges, scan_sub_dirs, pc, stack, files,
          errDir, tpc, calls, meta, off, buffer, ctx, result, lock, file_data,
          output_data, written, printed>>

fsVars   == <<kind, content, badName>>
walkVars == <<stack, files, errDir>>
taskVars == <<tpc, calls, meta, off, buffer, ctx, result>>
outVars  == <<output_data, written, printed>>

---------------------------------------------------------------------------
(* Bounds of the model.                                                    *)

NumThreads   == 2   \* worker threads of the pool
MaxFileLen   == 2   \* longest file content, in bytes
BufferLen    == 2   \* length of process_file's buffer (1024 in the source)
MaxFsChanges == 1   \* environment changes to the tree during one run

\* The byte values file contents are drawn from.
Bytes == {0, 1}

RECURSIVE SeqsUpTo(_, _)
SeqsUpTo(S, n) ==
    IF n = 0 THEN {<<>>}
    ELSE LET shorter == SeqsUpTo(S, n - 1)
         IN  shorter \cup {Append(s, x) : s \in shorter, x \in S}

Contents == SeqsUpTo(Bytes, MaxFileLen)

Min(a, b) == IF a < b THEN a ELSE b

---------------------------------------------------------------------------
(* The directory tree.  An entry is the sequence of its path components    *)
(* below the start directory; the start directory itself is <<>>.  A       *)
(* component is a name: the sequence of its characters.                    *)

Root == <<>>

NameATxt == <<"a", ".", "t", "x", "t">>
NameBTxt == <<"b", ".", "t", "x", "t">>
NameSub  == <<"s", "u", "b">>
NameDeep == <<"d", "e", "e", "p">>

FileA   == <<NameATxt>>
DirSub  == <<NameSub>>
FileB   == <<NameSub, NameBTxt>>
DirDeep == <<NameSub, NameDeep>>

Universe == {FileA, DirSub, FileB, DirDeep}

UniverseKind(e) == IF e \in {FileA, FileB} THEN "file" ELSE "dir"

\* The entries whose name may be invalid UTF-8: one file, and one directory
\* with a file below it.
MaybeBadName == {FileA, DirSub}

Parent(e) == SubSeq(e, 1, Len(e) - 1)

AncestorClosed(S) == \A e \in S : Parent(e) = Root \/ Parent(e) \in S

Children(d) == {e \in DOMAIN kind : Parent(e) = d}

---------------------------------------------------------------------------
(* Path helpers used by process_file.                                      *)

\* path.file_name(): the last component of the path.
FileName(e) == e[Len(e)]

\* Positions of the dots of a name.
DotsOf(name) == {i \in 1 .. Len(name) : name[i] = "."}

LastDot(name) == CHOOSE i \in DotsOf(name) : \A j \in DotsOf(name) : j <= i

\* An extension cut at the last dot whatever its position, as a hand-written
\* rsplit('.') would: a leading dot is not treated apart.
ExtensionOfRsplit(name) ==
    IF DotsOf(name) = {}
    THEN <<>>
    ELSE SubSeq(name, LastDot(name) + 1, Len(name))

\* path.extension().unwrap_or_default(): the part after the last dot; none
\* when the name has no dot or when its only dot is its first character.
Extension(name) ==
    IF DotsOf(name) = {} \/ LastDot(name) = 1
    THEN <<>>
    ELSE SubSeq(name, LastDot(name) + 1, Len(name))

\* to_str() of the file name is Some iff the name is valid UTF-8.
NameIsUtf8(e) == e \notin badName

\* path.to_str() is Some iff every component of the path is valid UTF-8.
PathIsUtf8(e) == \A k \in 1 .. Len(e) : SubSeq(e, 1, k) \notin badName

---------------------------------------------------------------------------
(* The hash contexts.  The digest crates are external; a context is        *)
(* modelled as a streaming state h updated byte by byte, the count n of    *)
(* bytes absorbed, and the history fed of the bytes passed to input().     *)
(* The widths are scaled down: 1, 2 and 3 digest bytes.                    *)

RECURSIVE Absorb(_, _, _, _)
Absorb(h, chunk, mult, modulus) ==
    IF chunk = <<>> THEN h
    ELSE Absorb((h * mult + Head(chunk) + 1) % modulus, Tail(chunk), mult, modulus)

Md5Modulus    == 256
Sha1Modulus   == 256 * 256
Sha256Modulus == 256 * 256 * 256

Md5Default    == [h |-> 103, n |-> 0, fed |-> <<>>]
Sha1Default   == [h |-> 26437, n |-> 0, fed |-> <<>>]
Sha256Default == [h |-> 6974055, n |-> 0, fed |-> <<>>]

\* A context that frames every chunk: the state depends on where the
\* chunk boundaries fall.
InputFramed(c, chunk, mult, modulus) ==
    [h   |-> (Absorb(c.h, chunk, mult, modulus) + 1) % modulus,
     n   |-> c.n + Len(chunk),
     fed |-> c.fed \o chunk]

\* input(): the context absorbs the bytes of the chunk in order.
Input(c, chunk, mult, modulus) ==
    [h   |-> Absorb(c.h, chunk, mult, modulus),
     n   |-> c.n + Len(chunk),
     fed |-> c.fed \o chunk]

Md5Input(c, chunk)    == Input(c, chunk, 31, Md5Modulus)
Sha1Input(c, chunk)   == Input(c, chunk, 131, Sha1Modulus)
Sha256Input(c, chunk) == Input(c, chunk, 97, Sha256Modulus)

\* fixed_result(): pads with the length and returns the digest bytes,
\* most significant first.
RECURSIVE ToBytes(_, _)
ToBytes(v, width) ==
    IF width = 0 THEN <<>>
    ELSE Append(ToBytes(v \div 256, width - 1), v % 256)

Md5Result(c)    == ToBytes((c.h * 31 + c.n + 7) % Md5Modulus, 1)
Sha1Result(c)   == ToBytes((c.h * 131 + c.n + 7) % Sha1Modulus, 2)
Sha256Result(c) == ToBytes((c.h * 97 + c.n + 7) % Sha256Modulus, 3)

HexDigits == <<"0", "1", "2", "3", "4", "5", "6", "7",
               "8", "9", "a", "b", "c", "d", "e", "f">>

\* hex::encode: two lower-case hexadecimal digits per byte.
RECURSIVE HexEncode(_)
HexEncode(bytes) ==
    IF bytes = <<>> THEN <<>>
    ELSE <<HexDigits[(Head(bytes) \div 16) + 1], HexDigits[(Head(bytes) % 16) + 1]>>
         \o HexEncode(Tail(bytes))

DefaultContexts == [md5 |-> Md5Default, sha1 |-> Sha1Default, sha256 |-> Sha256Default]

\* The whole buffer fed instead of the slice buffer[..read_bytes].
FeedAllWholeBuffer(c, buf, read_bytes) ==
    [md5    |-> Md5Input(c.md5, buf),
     sha1   |-> Sha1Input(c.sha1, buf),
     sha256 |-> Sha256Input(c.sha256, buf)]

\* Lines 149-151: the slice buffer[..read_bytes] goes to each context.
FeedAll(c, buf, read_bytes) ==
    LET chunk == SubSeq(buf, 1, read_bytes)
    IN  [md5    |-> Md5Input(c.md5, chunk),
         sha1   |-> Sha1Input(c.sha1, chunk),
         sha256 |-> Sha256Input(c.sha256, chunk)]

\* buf_reader.read(&mut buffer) returning n bytes read at position o: the
\* first n bytes of the buffer are overwritten, the rest keeps its old bytes.
FillBuffer(buf, bytes, o, n) ==
    [i \in 1 .. Len(buf) |-> IF i <= n THEN bytes[o + i] ELSE buf[i]]

ZeroBuffer == [i \in 1 .. BufferLen |-> 0]

\* The metadata locals before line 121 has run.
NoMeta == [is_dir |-> FALSE, size |-> 0]

\* Lines 154-158: finalize the three contexts and hex-encode the digests.
Digests(c) ==
    [md5    |-> HexEncode(Md5Result(c.md5)),
     sha1   |-> HexEncode(Sha1Result(c.sha1)),
     sha256 |-> HexEncode(Sha256Result(c.sha256))]

\* Line 160: the digests of a directory.
EmptyDigests == [md5 |-> <<>>, sha1 |-> <<>>, sha256 |-> <<>>]

\* Lines 163-174: the returned FileData (mod_time and permissions are opaque
\* metadata copies and are left out).
MakeFileData(e, m, d) ==
    [file_path |-> e,
     file_name |-> FileName(e),
     extension |-> Extension(FileName(e)),
     size      |-> m.size,
     is_dir    |-> m.is_dir,
     md5       |-> d.md5,
     sha1      |-> d.sha1,
     sha256    |-> d.sha256]

---------------------------------------------------------------------------
(* Initial states: a tree, the flag, and main before line 80.              *)

NoTasks == <<>>

Init ==
    /\ \E ex \in SUBSET Universe :
          /\ AncestorClosed(ex)
          /\ kind = [e \in ex |-> UniverseKind(e)]
          /\ content \in [{e \in ex : UniverseKind(e) = "file"} -> Contents]
          /\ \E bad \in SUBSET (ex \cap MaybeBadName) : Cardinality(bad) <= 1 /\ badName = bad
    /\ fsChanges = 0
    /\ scan_sub_dirs \in BOOLEAN
    /\ pc = "start"
    /\ stack = <<>>
    /\ files = <<>>
    /\ errDir = <<>>
    /\ tpc = NoTasks
    /\ calls = NoTasks
    /\ meta = NoTasks
    /\ off = NoTasks
    /\ buffer = NoTasks
    /\ ctx = NoTasks
    /\ result = NoTasks
    /\ lock = 0
    /\ file_data = <<>>
    /\ output_data = <<>>
    /\ written = <<>>
    /\ printed = FALSE

---------------------------------------------------------------------------
(* traverse_files, lines 101-118.  A frame is one active call: its         *)
(* directory and the entries its read_dir iterator has not yet yielded.    *)

Frame(d) == [dir |-> d, todo |-> Children(d)]

Top == stack[Len(stack)]

\* The walk ends with an error: every `?` on the way up returns it, and the
\* `?` of line 80 makes main return it.
Abort(d) ==
    /\ pc' = "enum_failed"
    /\ errDir' = <<d>>
    /\ stack' = <<>>

\* The entry e has been yielded by the iterator of the top frame.
Yielded(e) == [stack EXCEPT ![Len(stack)].todo = @ \ {e}]

\* Line 80 with line 106: fs::read_dir of the start directory succeeds.
ReadDirRoot ==
    /\ pc = "start"
    /\ pc' = "walk"
    /\ stack' = <<Frame(Root)>>
    /\ UNCHANGED <<fsVars, fsChanges, scan_sub_dirs, files, errDir, taskVars,
                   lock, file_data, outVars>>

\* The listing error of the start directory swallowed: the walk goes on as
\* if the directory were empty.
ReadDirRootFailIgnored ==
    /\ pc = "start"
    /\ pc' = "walk"
    /\ errDir' = <<Root>>
    /\ stack' = <<[dir |-> Root, todo |-> {}]>>
    /\ UNCHANGED <<fsVars, fsChanges, scan_sub_dirs, files, taskVars,
                   lock, file_data, outVars>>

\* Line 80 with line 106: fs::read_dir of the start directory fails.
ReadDirRootFail ==
    /\ pc = "start"
    /\ Abort(Root)
    /\ UNCHANGED <<fsVars, fsChanges, scan_sub_dirs, files, taskVars,
                   lock, file_data, outVars>>

\* Line 107: the iterator yields an Err for an entry.
EntryFail ==
    /\ pc = "walk"
    /\ Top.todo # {}
    /\ Abort(Top.dir)
    /\ UNCHANGED <<fsVars, fsChanges, scan_sub_dirs, files, taskVars,
                   lock, file_data, outVars>>

\* The is_dir test left out: every entry is pushed, directories too.
VisitFileAny ==
    /\ pc = "walk"
    /\ \E e \in Top.todo :
          /\ files' = Append(files, e)
          /\ stack' = Yielded(e)
    /\ UNCHANGED <<fsVars, fsChanges, scan_sub_dirs, pc, errDir, taskVars,
                   lock, file_data, outVars>>

\* Lines 107-109, 113-114: a non-directory entry is pushed.
VisitFile ==
    /\ pc = "walk"
    /\ \E e \in Top.todo :
          /\ kind[e] # "dir"
          /\ files' = Append(files, e)
          /\ stack' = Yielded(e)
    /\ UNCHANGED <<fsVars, fsChanges, scan_sub_dirs, pc, errDir, taskVars,
                   lock, file_data, outVars>>

\* The flag ignored: the directory is descended into without --sub-dirs.
SkipDirDescends ==
    /\ pc = "walk"
    /\ ~scan_sub_dirs
    /\ \E e \in Top.todo :
          /\ kind[e] = "dir"
          /\ stack' = Append(Yielded(e), Frame(e))
    /\ UNCHANGED <<fsVars, fsChanges, scan_sub_dirs, pc, files, errDir, taskVars,
                   lock, file_data, outVars>>

\* Lines 107-110: a directory entry without --sub-dirs is passed over.
SkipDir ==
    /\ pc = "walk"
    /\ ~scan_sub_dirs
    /\ \E e \in Top.todo :
          /\ kind[e] = "dir"
          /\ stack' = Yielded(e)
    /\ UNCHANGED <<fsVars, fsChanges, scan_sub_dirs, pc, files, errDir, taskVars,
                   lock, file_data, outVars>>

\* Lines 107-111 with line 106 of the callee: the recursive call lists e.
EnterDir ==
    /\ pc = "walk"
    /\ scan_sub_dirs
    /\ \E e \in Top.todo :
          /\ kind[e] = "dir"
          /\ stack' = Append(Yielded(e), Frame(e))
    /\ UNCHANGED <<fsVars, fsChanges, scan_sub_dirs, pc, files, errDir, taskVars,
                   lock, file_data, outVars>>

\* Lines 107-111 with line 106 of the callee: fs::read_dir(e) fails and the
\* `?` of line 111 returns the error from the caller as well.
EnterDirFail ==
    /\ pc = "walk"
    /\ scan_sub_dirs
    /\ \E e \in Top.todo :
          /\ kind[e] = "dir"
          /\ Abort(e)
    /\ UNCHANGED <<fsVars, fsChanges, scan_sub_dirs, files, taskVars,
                   lock, file_data, outVars>>

\* The caller's loop ended by the return of the nested call: the entries
\* the caller has not yet seen are dropped.
ReturnDirEndsCaller ==
    /\ pc = "walk"
    /\ Len(stack) > 1
    /\ Top.todo = {}
    /\ stack' = [SubSeq(stack, 1, Len(stack) - 1) EXCEPT ![Len(stack) - 1].todo = {}]
    /\ UNCHANGED <<fsVars, fsChanges, scan_sub_dirs, pc, files, errDir, taskVars,
                   lock, file_data, outVars>>

\* Line 117: a nested call returns Ok(()) to its caller's loop.
ReturnDir ==
    /\ pc = "walk"
    /\ Len(stack) > 1
    /\ Top.todo = {}
    /\ stack' = SubSeq(stack, 1, Len(stack) - 1)
    /\ UNCHANGED <<fsVars, fsChanges, scan_sub_dirs, pc, files, errDir, taskVars,
                   lock, file_data, outVars>>

\* The parallel loop started on the paths found so far, before the walk
\* has returned.
StartParallelEarly ==
    /\ pc = "walk"
    /\ stack' = <<>>
    /\ pc' = "par"
    /\ tpc' = [i \in DOMAIN files |-> "todo"]
    /\ calls' = [i \in DOMAIN files |-> 0]
    /\ meta' = [i \in DOMAIN files |-> NoMeta]
    /\ off' = [i \in DOMAIN files |-> 0]
    /\ buffer' = [i \in DOMAIN files |-> ZeroBuffer]
    /\ ctx' = [i \in DOMAIN files |-> DefaultContexts]
    /\ result' = [i \in DOMAIN files |-> <<>>]
    /\ UNCHANGED <<fsVars, fsChanges, scan_sub_dirs, files, errDir,
                   lock, file_data, outVars>>

\* Line 117 of the outermost call, then line 82: par_iter starts one
\* closure invocation per element of files.
StartParallel ==
    /\ pc = "walk"
    /\ Len(stack) = 1
    /\ Top.todo = {}
    /\ stack' = <<>>
    /\ pc' = "par"
    /\ tpc' = [i \in DOMAIN files |-> "todo"]
    /\ calls' = [i \in DOMAIN files |-> 0]
    /\ meta' = [i \in DOMAIN files |-> NoMeta]
    /\ off' = [i \in DOMAIN files |-> 0]
    /\ buffer' = [i \in DOMAIN files |-> ZeroBuffer]
    /\ ctx' = [i \in DOMAIN files |-> DefaultContexts]
    /\ result' = [i \in DOMAIN files |-> <<>>]
    /\ UNCHANGED <<fsVars, fsChanges, scan_sub_dirs, files, errDir,
                   lock, file_data, outVars>>

---------------------------------------------------------------------------
(* The closure of lines 82-87 for the path files[i], with process_file     *)
(* (lines 120-175) inlined at its I/O steps.                               *)

Tasks == DOMAIN tpc

Running(i) == tpc[i] \in {"meta", "open", "read", "eisdir", "ready", "locked"}

Finished(i) == tpc[i] \in {"done", "failed", "panicked"}

DirSizes == {0, 4096}

\* process_file returns or unwinds: its locals (metadata, reader, buffer,
\* contexts) are dropped.
DropLocals(i) ==
    /\ meta' = [meta EXCEPT ![i] = NoMeta]
    /\ off' = [off EXCEPT ![i] = 0]
    /\ buffer' = [buffer EXCEPT ![i] = ZeroBuffer]
    /\ ctx' = [ctx EXCEPT ![i] = DefaultContexts]

\* Lines 163-174 and the return to line 83: path.to_str().unwrap() panics
\* on a path that is not UTF-8, otherwise Ok(data) reaches the closure.
Return(i, m, d) ==
    /\ IF PathIsUtf8(files[i])
       THEN /\ tpc' = [tpc EXCEPT ![i] = "ready"]
            /\ result' = [result EXCEPT ![i] = <<MakeFileData(files[i], m, d)>>]
       ELSE /\ tpc' = [tpc EXCEPT ![i] = "panicked"]
            /\ UNCHANGED result
    /\ DropLocals(i)

\* The lock taken before process_file is called, so that the whole call
\* runs under it.
StartLocked(i) ==
    /\ pc = "par"
    /\ tpc[i] = "todo"
    /\ Cardinality({j \in Tasks : Running(j)}) < NumThreads
    /\ lock = 0
    /\ lock' = i
    /\ tpc' = [tpc EXCEPT ![i] = "meta"]
    /\ calls' = [calls EXCEPT ![i] = @ + 1]
    /\ UNCHANGED <<fsVars, fsChanges, scan_sub_dirs, pc, walkVars, meta, off, buffer,
                   ctx, result, file_data, outVars>>

\* Line 82: a worker thread picks up the closure for files[i]; line 83
\* calls process_file.
Start(i) ==
    /\ pc = "par"
    /\ tpc[i] = "todo"
    /\ Cardinality({j \in Tasks : Running(j)}) < NumThreads
    /\ tpc' = [tpc EXCEPT ![i] = "meta"]
    /\ calls' = [calls EXCEPT ![i] = @ + 1]
    /\ UNCHANGED <<fsVars, fsChanges, scan_sub_dirs, pc, walkVars, meta, off, buffer,
                   ctx, result, lock, file_data, outVars>>

\* Line 121 (or line 131): the metadata cannot be read; process_file
\* returns Err and the `if let Ok` of line 83 drops it.
MetadataFail(i) ==
    /\ pc = "par"
    /\ tpc[i] = "meta"
    /\ tpc' = [tpc EXCEPT ![i] = "failed"]
    /\ DropLocals(i)
    /\ UNCHANGED <<fsVars, fsChanges, scan_sub_dirs, pc, walkVars, calls, result,
                   lock, file_data, outVars>>

\* Lines 121-133: metadata read; the file name is converted (panic if it
\* is not UTF-8); a directory goes straight to lines 160-174.
Metadata(i) ==
    /\ pc = "par"
    /\ tpc[i] = "meta"
    /\ \E sz \in (IF kind[files[i]] = "dir" THEN DirSizes ELSE {Len(content[files[i]])}) :
          LET m == [is_dir |-> kind[files[i]] = "dir", size |-> sz]
          IN  IF ~NameIsUtf8(files[i])
              THEN /\ tpc' = [tpc EXCEPT ![i] = "panicked"]
                   /\ DropLocals(i)
                   /\ UNCHANGED result
              ELSE IF m.is_dir
              THEN Return(i, m, EmptyDigests)
              ELSE /\ meta' = [meta EXCEPT ![i] = m]
                   /\ tpc' = [tpc EXCEPT ![i] = "open"]
                   /\ UNCHANGED <<off, buffer, ctx, result>>
    /\ UNCHANGED <<fsVars, fsChanges, scan_sub_dirs, pc, walkVars, calls,
                   lock, file_data, outVars>>

\* Line 134: fs::File::open fails.
OpenFail(i) ==
    /\ pc = "par"
    /\ tpc[i] = "open"
    /\ tpc' = [tpc EXCEPT ![i] = "failed"]
    /\ DropLocals(i)
    /\ UNCHANGED <<fsVars, fsChanges, scan_sub_dirs, pc, walkVars, calls, result,
                   lock, file_data, outVars>>

\* Lines 134-141: the file is opened, the contexts and the buffer created.
\* Opening what has become a directory succeeds; its reads then fail.
Open(i) ==
    /\ pc = "par"
    /\ tpc[i] = "open"
    /\ tpc' = [tpc EXCEPT ![i] = IF kind[files[i]] = "dir" THEN "eisdir" ELSE "read"]
    /\ ctx' = [ctx EXCEPT ![i] = DefaultContexts]
    /\ buffer' = [buffer EXCEPT ![i] = ZeroBuffer]
    /\ off' = [off EXCEPT ![i] = 0]
    /\ UNCHANGED <<fsVars, fsChanges, scan_sub_dirs, pc, walkVars, calls, meta,
                   result, lock, file_data, outVars>>

\* A read error taken for the end of the file: the loop breaks and the
\* digests of what was read so far are returned.
ReadFailBreaks(i) ==
    /\ pc = "par"
    /\ tpc[i] \in {"read", "eisdir"}
    /\ Return(i, meta[i], Digests(ctx[i]))
    /\ UNCHANGED <<fsVars, fsChanges, scan_sub_dirs, pc, walkVars, calls,
                   lock, file_data, outVars>>

\* Line 144: a read fails; the `?` returns Err before any finalization.
ReadFail(i) ==
    /\ pc = "par"
    /\ tpc[i] \in {"read", "eisdir"}
    /\ tpc' = [tpc EXCEPT ![i] = "failed"]
    /\ DropLocals(i)
    /\ UNCHANGED <<fsVars, fsChanges, scan_sub_dirs, pc, walkVars, calls, result,
                   lock, file_data, outVars>>

\* Lines 144-151: a read returns n > 0 bytes (possibly fewer than the
\* buffer holds) and the chunk is fed to the three contexts.
ReadChunk(i) ==
    /\ pc = "par"
    /\ tpc[i] = "read"
    /\ \E n \in 1 .. Min(BufferLen, Len(content[files[i]]) - off[i]) :
          LET buf == FillBuffer(buffer[i], content[files[i]], off[i], n)
          IN  /\ buffer' = [buffer EXCEPT ![i] = buf]
              /\ ctx' = [ctx EXCEPT ![i] = FeedAll(ctx[i], buf, n)]
              /\ off' = [off EXCEPT ![i] = @ + n]
    /\ UNCHANGED <<fsVars, fsChanges, scan_sub_dirs, pc, walkVars, tpc, calls, meta,
                   result, lock, file_data, outVars>>

\* A short read taken for the end of the file: the contexts are finalized
\* wherever the read position stands.
ReadEofEarly(i) ==
    /\ pc = "par"
    /\ tpc[i] = "read"
    /\ Return(i, meta[i], Digests(ctx[i]))
    /\ UNCHANGED <<fsVars, fsChanges, scan_sub_dirs, pc, walkVars, calls,
                   lock, file_data, outVars>>

\* Lines 144-146, 154-174: the read at end of file returns 0, the loop
\* breaks, the contexts are finalized and the record is returned.
ReadEof(i) ==
    /\ pc = "par"
    /\ tpc[i] = "read"
    /\ off[i] = Len(content[files[i]])
    /\ Return(i, meta[i], Digests(ctx[i]))
    /\ UNCHANGED <<fsVars, fsChanges, scan_sub_dirs, pc, walkVars, calls,
                   lock, file_data, outVars>>

\* The append section entered without waiting for the lock.
LockNoWait(i) ==
    /\ pc = "par"
    /\ tpc[i] = "ready"
    /\ lock' = i
    /\ tpc' = [tpc EXCEPT ![i] = "locked"]
    /\ UNCHANGED <<fsVars, fsChanges, scan_sub_dirs, pc, walkVars, calls, meta, off,
                   buffer, ctx, result, file_data, outVars>>

\* Line 84: file_data.lock() is granted.
Lock(i) ==
    /\ pc = "par"
    /\ tpc[i] = "ready"
    /\ lock = 0
    /\ lock' = i
    /\ tpc' = [tpc EXCEPT ![i] = "locked"]
    /\ UNCHANGED <<fsVars, fsChanges, scan_sub_dirs, pc, walkVars, calls, meta, off,
                   buffer, ctx, result, file_data, outVars>>

\* Push with a lost update: the vector is replaced instead of extended.
PushOverwrites(i) ==
    /\ pc = "par"
    /\ tpc[i] = "locked"
    /\ file_data' = <<result[i][1]>>
    /\ lock' = 0
    /\ tpc' = [tpc EXCEPT ![i] = "done"]
    /\ UNCHANGED <<fsVars, fsChanges, scan_sub_dirs, pc, walkVars, calls, meta, off,
                   buffer, ctx, result, outVars>>

\* Lines 85-86: push, then the guard is dropped at the end of the block.
Push(i) ==
    /\ pc = "par"
    /\ tpc[i] = "locked"
    /\ file_data' = Append(file_data, result[i][1])
    /\ lock' = 0
    /\ tpc' = [tpc EXCEPT ![i] = "done"]
    /\ UNCHANGED <<fsVars, fsChanges, scan_sub_dirs, pc, walkVars, calls, meta, off,
                   buffer, ctx, result, outVars>>

\* The environment: between enumeration and the end of processing, an
\* enumerated regular file is replaced by a directory of the same name.
FsReplace(e) ==
    /\ pc = "par"
    /\ fsChanges < MaxFsChanges
    /\ \E i \in Tasks : files[i] = e /\ ~Finished(i)
    /\ kind[e] = "file"
    /\ kind' = [kind EXCEPT ![e] = "dir"]
    /\ fsChanges' = fsChanges + 1
    /\ UNCHANGED <<content, badName, scan_sub_dirs, pc, walkVars, taskVars, lock,
                   file_data, outVars>>

---------------------------------------------------------------------------
(* main after the parallel loop, lines 87-98.                              *)

\* A join that does not wait: main goes on while closures still run.
JoinEarly ==
    /\ pc = "par"
    /\ pc' = IF \E i \in Tasks : tpc[i] = "panicked" THEN "panic" ELSE "build"
    /\ UNCHANGED <<fsVars, fsChanges, scan_sub_dirs, walkVars, taskVars, lock,
                   file_data, outVars>>

\* A join that turns a failed process_file call into a failure of the run.
JoinEscalates ==
    /\ pc = "par"
    /\ \A i \in Tasks : Finished(i)
    /\ pc' = IF \E i \in Tasks : tpc[i] \in {"panicked", "failed"} THEN "panic" ELSE "build"
    /\ UNCHANGED <<fsVars, fsChanges, scan_sub_dirs, walkVars, taskVars, lock,
                   file_data, outVars>>

\* Line 87: for_each returns once every closure invocation has ended; a
\* panic of a closure is resumed in main.
Join ==
    /\ pc = "par"
    /\ \A i \in Tasks : Finished(i)
    /\ pc' = IF \E i \in Tasks : tpc[i] = "panicked" THEN "panic" ELSE "build"
    /\ UNCHANGED <<fsVars, fsChanges, scan_sub_dirs, walkVars, taskVars, lock,
                   file_data, outVars>>

\* Lines 89-91: lock, clone the vector into OutputData, unlock.
BuildOutput ==
    /\ pc = "build"
    /\ lock = 0
    /\ output_data' = file_data
    /\ pc' = "write"
    /\ UNCHANGED <<fsVars, fsChanges, scan_sub_dirs, walkVars, taskVars, lock,
                   file_data, written, printed>>

\* Lines 93-98: serialized, written, "Done!" printed, Ok(()) returned.
WriteOutput ==
    /\ pc = "write"
    /\ written' = Append(written, output_data)
    /\ printed' = TRUE
    /\ pc' = "done"
    /\ UNCHANGED <<fsVars, fsChanges, scan_sub_dirs, walkVars, taskVars, lock,
                   file_data, output_data>>

\* The write error ignored: "Done!" is printed although nothing was written.
WriteFailPrints ==
    /\ pc = "write"
    /\ pc' = "write_failed"
    /\ printed' = TRUE
    /\ UNCHANGED <<fsVars, fsChanges, scan_sub_dirs, walkVars, taskVars, lock,
                   file_data, output_data, written>>

\* Lines 93-94: serialization or fs::write fails; main returns the error.
WriteFail ==
    /\ pc = "write"
    /\ pc' = "write_failed"
    /\ UNCHANGED <<fsVars, fsChanges, scan_sub_dirs, walkVars, taskVars, lock,
                   file_data, outVars>>

---------------------------------------------------------------------------

Next ==
    \/ ReadDirRoot
    \/ ReadDirRootFail
    \/ EntryFail
    \/ VisitFile
    \/ SkipDir
    \/ EnterDir
    \/ EnterDirFail
    \/ ReturnDir
    \/ StartParallel
    \/ \E i \in Tasks : Start(i)
    \/ \E i \in Tasks : MetadataFail(i)
    \/ \E i \in Tasks : Metadata(i)
    \/ \E i \in Tasks : OpenFail(i)
    \/ \E i \in Tasks : Open(i)
    \/ \E i \in Tasks : ReadFail(i)
    \/ \E i \in Tasks : ReadChunk(i)
    \/ \E i \in Tasks : ReadEof(i)
    \/ \E i \in Tasks : Lock(i)
    \/ \E i \in Tasks : Push(i)
    \/ \E e \in DOMAIN kind : FsReplace(e)
    \/ Join
    \/ BuildOutput
    \/ WriteOutput
    \/ WriteFail

Spec == Init /\ [][Next]_vars

---------------------------------------------------------------------------
(* A second specification: the start directory holds one regular file,     *)
(* whose name is any name a directory listing can yield over a small       *)
(* alphabet; the run is the same code.                                     *)

MaxNameLen == 3   \* longest file name, in characters

NameChars == {"a", "b", "."}

\* read_dir never yields the entries "." and "..".
Names == SeqsUpTo(NameChars, MaxNameLen) \ {<<>>, <<".">>, <<".", ".">>}

InitNames ==
    /\ \E nm \in Names :
          /\ kind = [e \in {<<nm>>} |-> "file"]
          /\ content \in [{<<nm>>} -> Contents]
          /\ badName \in {{}, {<<nm>>}}
    /\ fsChanges = 0
    /\ scan_sub_dirs = FALSE
    /\ pc = "start"
    /\ stack = <<>>
    /\ files = <<>>
    /\ errDir = <<>>
    /\ tpc = NoTasks
    /\ calls = NoTasks
    /\ meta = NoTasks
    /\ off = NoTasks
    /\ buffer = NoTasks
    /\ ctx = NoTasks
    /\ result = NoTasks
    /\ lock = 0
    /\ file_data = <<>>
    /\ output_data = <<>>
    /\ written = <<>>
    /\ printed = FALSE

\* The steps a tree without directories can take.
NextNames ==
    \/ ReadDirRoot
    \/ ReadDirRootFail
    \/ EntryFail
    \/ VisitFile
    \/ StartParallel
    \/ \E i \in Tasks : Start(i)
    \/ \E i \in Tasks : MetadataFail(i)
    \/ \E i \in Tasks : Metadata(i)
    \/ \E i \in Tasks : OpenFail(i)
    \/ \E i \in Tasks : Open(i)
    \/ \E i \in Tasks : ReadFail(i)
    \/ \E i \in Tasks : ReadChunk(i)
    \/ \E i \in Tasks : ReadEof(i)
    \/ \E i \in Tasks : Lock(i)
    \/ \E i \in Tasks : Push(i)
    \/ \E e \in DOMAIN kind : FsReplace(e)
    \/ Join
    \/ BuildOutput
    \/ WriteOutput
    \/ WriteFail

SpecNames == InitNames /\ [][NextNames]_vars

---------------------------------------------------------------------------
(* Vocabulary of the properties.                                           *)

Range(v) == {v[k] : k \in DOMAIN v}

Injective(v) == \A j, k \in DOMAIN v : v[j] = v[k] => j = k

\* The positions of the records of path e in a vector of records.
RecordsOf(v, e) == {k \in DOMAIN v : v[k].file_path = e}

\* process_file returned Ok for files[i].
Succeeded(i) == result[i] # <<>>

\* The walk returned Ok(()) to main.
Enumerated == pc \in {"par", "panic", "build", "write", "write_failed", "done"}

\* The vector v holds one record per successful path, and nothing else.
ExactInventory(v) ==
    /\ \A i \in Tasks :
          Cardinality(RecordsOf(v, files[i])) = (IF Succeeded(i) THEN 1 ELSE 0)
    /\ \A k \in DOMAIN v : \E i \in Tasks : Succeeded(i) /\ v[k] = result[i][1]

---------------------------------------------------------------------------
(* C1: once the workers have all ended, the collection -- and the document *)
(* built and written from it -- holds exactly one record for each          *)
(* enumerated path whose process_file call returned Ok and no other        *)
(* record, whatever the order in which the workers completed.              *)
C1_ExactlyOnePerSuccess ==
    /\ pc \in {"build", "write", "write_failed", "done"} => ExactInventory(file_data)
    /\ pc \in {"write", "write_failed", "done"} => ExactInventory(output_data)
    /\ \A k \in DOMAIN written : ExactInventory(written[k])

\* Two records were written, in the opposite of the enumeration order.
C1_Witness ==
    /\ pc = "done"
    /\ Len(written) = 1
    /\ Len(written[1]) = 2
    /\ written[1][1].file_path = files[2]
    /\ written[1][2].file_path = files[1]

(* C2: a path whose process_file call returned Err has no record; the      *)
(* paths that succeeded keep theirs; and the failure does not end the run: *)
(* the run leaves the parallel loop abnormally only when a closure         *)
(* panicked, and with every call ended without panic it goes on to the     *)
(* output stage, where the written document holds the other records.       *)
C2_FailureIsSwallowed ==
    /\ \A i \in Tasks : tpc[i] = "failed" =>
          /\ result[i] = <<>>
          /\ RecordsOf(file_data, files[i]) = {}
          /\ RecordsOf(output_data, files[i]) = {}
    /\ \A i \in Tasks : tpc[i] = "done" => RecordsOf(file_data, files[i]) # {}
    /\ pc = "panic" => \E i \in Tasks : tpc[i] = "panicked"
    /\ pc = "enum_failed" => tpc = NoTasks
    /\ pc = "done" =>
          /\ printed
          /\ \A i \in Tasks : tpc[i] = "done" => RecordsOf(written[1], files[i]) # {}
          /\ \A i \in Tasks : tpc[i] = "failed" => RecordsOf(written[1], files[i]) = {}

\* A run that ended with success although one of two calls failed.
C2_Witness ==
    /\ pc = "done"
    /\ printed
    /\ \E i, j \in Tasks :
          /\ tpc[i] = "failed"
          /\ tpc[j] = "done"
          /\ Len(written[1]) = 1
          /\ written[1][1].file_path = files[j]

(* C3: when the start directory cannot be listed the run ends with the     *)
(* enumeration error: no process_file call was made, nothing was appended, *)
(* no document was built or written, and "Done!" was not printed.          *)
C3_RootFailureIsFatal ==
    errDir = <<Root>> =>
        /\ pc = "enum_failed"
        /\ tpc = NoTasks
        /\ calls = NoTasks
        /\ file_data = <<>>
        /\ output_data = <<>>
        /\ written = <<>>
        /\ ~printed

\* The listing of the start directory failed.
C3_Witness == errDir = <<Root>> /\ pc = "enum_failed" /\ files = <<>>

(* C4 (as claimed): when the listing that failed is that of a directory    *)
(* other than the start directory, the enumeration is not aborted.         *)
C4_SubdirFailureNotFatal ==
    (errDir # <<>> /\ errDir[1] # Root) => pc # "enum_failed"

\* The kind an entry has while the tree is walked (the tree changes only
\* once the workers run).
KindAtWalk(e) == UniverseKind(e)

(* C5: without --sub-dirs no directory is descended into, every path       *)
(* pushed is a non-directory child of the start directory, pushed once,    *)
(* and the finished list holds exactly those children.                     *)
C5_NoRecursionListsRootFiles ==
    ~scan_sub_dirs =>
        /\ Len(stack) <= 1
        /\ Injective(files)
        /\ \A k \in DOMAIN files :
              Parent(files[k]) = Root /\ KindAtWalk(files[k]) # "dir"
        /\ Enumerated =>
              Range(files) = {e \in DOMAIN kind : Parent(e) = Root /\ KindAtWalk(e) # "dir"}

\* The root file was listed and the file below sub was not.
C5_Witness ==
    /\ ~scan_sub_dirs
    /\ pc = "par"
    /\ files = <<FileA>>
    /\ FileB \in DOMAIN kind

(* C6: with --sub-dirs and no listing error, the finished list holds every *)
(* non-directory entry of the tree exactly once and no directory, in       *)
(* whatever order the directories were listed; a tree of directories only  *)
(* gives an empty list and an empty written document.                      *)
C6_RecursionListsEveryFileOnce ==
    scan_sub_dirs =>
        /\ Injective(files)
        /\ \A k \in DOMAIN files : KindAtWalk(files[k]) # "dir"
        /\ Enumerated =>
              Range(files) = {e \in DOMAIN kind : KindAtWalk(e) # "dir"}
        /\ (pc = "done" /\ \A e \in DOMAIN kind : KindAtWalk(e) = "dir") =>
              files = <<>> /\ written = << <<>> >>

\* sub was listed before a.txt, and sub/deep exists.
C6_Witness ==
    /\ scan_sub_dirs
    /\ pc = "par"
    /\ files = <<FileB, FileA>>
    /\ DirDeep \in DOMAIN kind

\* The three digests of a record are hex strings of their full lengths.
Populated(r) == Len(r.md5) = 2 /\ Len(r.sha1) = 4 /\ Len(r.sha256) = 6

AllEmpty(r) == r.md5 = <<>> /\ r.sha1 = <<>> /\ r.sha256 = <<>>

WellFormed(r) == (r.is_dir /\ AllEmpty(r)) \/ (~r.is_dir /\ Populated(r))

(* C7: every record process_file returned, and every record of the         *)
(* collection, is a directory record with three empty digests or a file    *)
(* record with three populated digests; a directory record is returned     *)
(* without the file having been opened, a file record only by the read     *)
(* that found the end of the file; a call that failed returned no record.  *)
C7_DigestsAllOrNone ==
    /\ [](/\ \A i \in Tasks : Succeeded(i) => WellFormed(result[i][1])
          /\ \A k \in DOMAIN file_data : WellFormed(file_data[k])
          /\ \A i \in Tasks : tpc[i] = "failed" => ~Succeeded(i))
    /\ [][\A i \in Tasks :
             (~Succeeded(i) /\ result'[i] # <<>>) =>
                 IF result'[i][1].is_dir
                 THEN tpc[i] = "meta"
                 ELSE tpc[i] = "read" /\ off[i] = Len(content[files[i]])]_vars

\* The collection holds a directory record and a file record.
C7_Witness ==
    \E j, k \in DOMAIN file_data :
        /\ file_data[j].is_dir /\ AllEmpty(file_data[j])
        /\ ~file_data[k].is_dir /\ Populated(file_data[k])

\* The bytes of the file of call i up to its read position.
ReadSoFar(i) == SubSeq(content[files[i]], 1, off[i])

FedIs(i, bytes) ==
    /\ ctx[i].md5.fed = bytes
    /\ ctx[i].sha1.fed = bytes
    /\ ctx[i].sha256.fed = bytes

(* C8: between two reads each of the three contexts has been fed exactly   *)
(* the bytes read so far, in order; a read moves the position forward and  *)
(* appends its chunk to all three; and the contexts are finalized only     *)
(* when what they were fed is the whole content of the file.               *)
C8_ChunksFedInOrder ==
    /\ [](\A i \in Tasks : tpc[i] = "read" =>
             /\ FedIs(i, ReadSoFar(i))
             /\ ctx[i].md5.n = off[i] /\ ctx[i].sha1.n = off[i] /\ ctx[i].sha256.n = off[i])
    /\ [][\A i \in Tasks :
             /\ (tpc[i] = "read" /\ tpc'[i] = "read" /\ off'[i] # off[i]) =>
                   /\ off'[i] > off[i]
                   /\ \A a \in {ctx'[i].md5, ctx'[i].sha1, ctx'[i].sha256} :
                         a.fed = ReadSoFar(i) \o SubSeq(content[files[i]], off[i] + 1, off'[i])
             /\ (tpc[i] = "read" /\ tpc'[i] \in {"ready", "panicked"}) =>
                   FedIs(i, content[files[i]])]_vars

\* A two-byte file read in two short reads: the buffer holds the second
\* byte, then a stale one, and the contexts hold both bytes in order.
C8_Witness ==
    \E i \in Tasks :
        /\ tpc[i] = "read"
        /\ content[files[i]] = <<0, 1>>
        /\ off[i] = 2
        /\ buffer[i][1] = 1
        /\ FedIs(i, <<0, 1>>)

\* The contexts after the whole content went through input() in one chunk.
OneShot(bytes) ==
    IF bytes = <<>> THEN DefaultContexts ELSE FeedAll(DefaultContexts, bytes, Len(bytes))

SameDigests(r, d) == r.md5 = d.md5 /\ r.sha1 = d.sha1 /\ r.sha256 = d.sha256

(* C9: whatever the sizes of the successive reads were, the digests of a   *)
(* file record are those of its content fed as a single chunk, so any two  *)
(* splits of the same content give the same md5, sha1 and sha256.          *)
C9_DigestsIndependentOfSplit ==
    /\ \A i \in Tasks :
          (Succeeded(i) /\ ~result[i][1].is_dir) =>
              SameDigests(result[i][1], Digests(OneShot(content[files[i]])))
    /\ \A i \in Tasks :
          (tpc[i] = "read" /\ off[i] = Len(content[files[i]])) =>
              Digests(ctx[i]) = Digests(OneShot(content[files[i]]))

\* A two-byte file was read one byte at a time; its contexts, about to be
\* finalized, give the digests of the single chunk.
C9_Witness ==
    \E i \in Tasks :
        /\ tpc[i] = "read"
        /\ content[files[i]] = <<1, 0>>
        /\ off[i] = 2
        /\ buffer[i][1] = 0
        /\ Digests(ctx[i]) = Digests(OneShot(<<1, 0>>))

(* C10: at most one closure is between its lock() and the end of its       *)
(* block, and it is the holder of the lock.                                *)
C10_OneAppenderAtATime ==
    /\ Cardinality({i \in Tasks : tpc[i] = "locked"}) <= 1
    /\ \A i \in Tasks : tpc[i] = "locked" <=> lock = i

\* One closure holds the lock while another waits for it.
C10_Witness ==
    \E i, j \in Tasks :
        /\ i # j
        /\ tpc[i] = "locked"
        /\ lock = i
        /\ tpc[j] = "ready"


(* C11: the collection is cloned into the document only when every        *)
(* closure has ended and the lock is free; from then on the document is    *)
(* the whole collection, which no longer changes, and what is written is   *)
(* that document.                                                          *)
C11_ReadAfterJoin ==
    /\ pc \in {"start", "walk", "enum_failed", "par", "panic", "build"} =>
          output_data = <<>> /\ written = <<>>
    /\ pc \in {"build", "write", "write_failed", "done"} =>
          /\ \A i \in Tasks : Finished(i)
          /\ lock = 0
    /\ pc \in {"write", "write_failed", "done"} => output_data = file_data
    /\ \A k \in DOMAIN written : written[k] = file_data

\* The document was built from a collection of two records.
C11_Witness ==
    /\ pc = "write"
    /\ Len(file_data) = 2
    /\ output_data = file_data


(* C12 (as claimed): process_file is called at most once per enumerated    *)
(* path, and once the parallel loop is left every path has had its one     *)
(* call and main is at the output stage.                                   *)
C12_RunsToOutput ==
    /\ \A i \in Tasks : calls[i] <= 1
    /\ (Enumerated /\ pc # "par") =>
          /\ \A i \in Tasks : calls[i] = 1
          /\ pc \in {"build", "write", "write_failed", "done"}


(* C13: the document is written at most once, and only when every closure  *)
(* has ended; "Done!" is printed exactly when the write succeeded; a run   *)
(* whose write failed ends with the error, nothing written, nothing        *)
(* printed.                                                                *)
C13_WrittenOnceThenAcknowledged ==
    /\ Len(written) <= 1
    /\ written # <<>> =>
          /\ pc = "done"
          /\ \A i \in Tasks : Finished(i)
    /\ printed <=> Len(written) = 1
    /\ pc = "done" => printed
    /\ pc = "write_failed" =>
          /\ ~printed
          /\ written = <<>>
          /\ \A i \in Tasks : Finished(i)

\* The write failed after a record had been collected.
C13_Witness ==
    /\ pc = "write_failed"
    /\ Len(output_data) >= 1
    /\ ~printed


(* C14 (as claimed): the extension of a record is the part of its file     *)
(* name after the last dot, and is empty if the name has no dot.           *)
C14_ExtensionIsSuffixAfterLastDot ==
    \A i \in Tasks :
        Succeeded(i) =>
            LET nm  == result[i][1].file_name
                ext == result[i][1].extension
            IN  IF \E k \in DOMAIN nm : nm[k] = "."
                THEN /\ \A k \in DOMAIN ext : ext[k] # "."
                     /\ Len(nm) > Len(ext)
                     /\ nm[Len(nm) - Len(ext)] = "."
                     /\ ext = SubSeq(nm, Len(nm) - Len(ext) + 1, Len(nm))
                ELSE ext = <<>>

(* C14 (amended): the file name of a record is the last component of its   *)
(* path; the extension is the part of the name after its last dot when     *)
(* that dot is not the first character of the name, and is empty when the  *)
(* name has no dot or its only dot is its first character.                 *)
C14_ExtensionSkipsLeadingDot ==
    \A i \in Tasks :
        Succeeded(i) =>
            LET nm  == result[i][1].file_name
                ext == result[i][1].extension
            IN  /\ nm = files[i][Len(files[i])]
                /\ IF \E k \in 2 .. Len(nm) : nm[k] = "."
                   THEN /\ \A k \in DOMAIN ext : ext[k] # "."
                        /\ Len(nm) - Len(ext) >= 2
                        /\ nm[Len(nm) - Len(ext)] = "."
                        /\ ext = SubSeq(nm, Len(nm) - Len(ext) + 1, Len(nm))
                   ELSE ext = <<>>

\* The record of the file ".a" has no extension.
C14_Witness ==
    \E k \in DOMAIN file_data :
        /\ file_data[k].file_name = <<".", "a">>
        /\ file_data[k].extension = <<>>


\* The paths a walk without error pushes.
ExpectedFiles ==
    {e \in DOMAIN kind : KindAtWalk(e) # "dir" /\ (scan_sub_dirs \/ Parent(e) = Root)}

(* C15: while the tree is walked no closure exists and no process_file     *)
(* call has been made; the closures run on the complete list, one per      *)
(* element; and once the walk is over the list never changes.              *)
C15_EnumerationBeforeProcessing ==
    /\ [](/\ pc \in {"start", "walk", "enum_failed"} =>
                tpc = NoTasks /\ calls = NoTasks /\ file_data = <<>>
          /\ Enumerated =>
                /\ stack = <<>>
                /\ DOMAIN tpc = DOMAIN files
                /\ Range(files) = ExpectedFiles)
    /\ [][pc \notin {"start", "walk"} => files' = files]_vars

\* A process_file call is under way on a list of two paths.
C15_Witness ==
    /\ pc = "par"
    /\ Len(files) = 2
    /\ \E i \in Tasks : tpc[i] = "meta" /\ calls[i] = 1


(* C16: the holder of the lock is a closure whose process_file call has    *)
(* returned Ok and whose file, buffer and contexts are gone; the lock is   *)
(* acquired only from that position; the only step its holder takes is     *)
(* the one append that also releases it; a closure whose call failed or    *)
(* panicked never holds it.                                                *)
C16_NoIoUnderLock ==
    /\ [](/\ lock \in {0} \cup Tasks
          /\ \A i \in Tasks :
                /\ lock = i =>
                      /\ tpc[i] = "locked"
                      /\ Succeeded(i)
                      /\ off[i] = 0 /\ buffer[i] = ZeroBuffer /\ ctx[i] = DefaultContexts
                /\ tpc[i] \in {"failed", "panicked"} => lock # i /\ ~Succeeded(i))
    /\ [][\A i \in Tasks :
             /\ (lock # i /\ lock' = i) => tpc[i] = "ready" /\ Succeeded(i)
             /\ (lock = i /\ tpc'[i] # tpc[i]) =>
                   /\ tpc'[i] = "done"
                   /\ file_data' = Append(file_data, result[i][1])
                   /\ lock' = 0
             /\ tpc[i] = "failed" => tpc'[i] = "failed" /\ lock' # i]_vars

\* One closure holds the lock while the other is reading its file.
C16_Witness ==
    \E i, j \in Tasks :
        /\ lock = i
        /\ tpc[i] = "locked"
        /\ tpc[j] = "read"
        /\ off[j] > 0


\* The three contexts of call i exist and accept chunks (lines 137-152).
Accepting(i) == tpc[i] \in {"read", "eisdir"}

\* Call i is past its contexts: they were finalized (lines 154-156) or
\* dropped by the `?` of line 144.
Consumed(i) == tpc[i] \in {"ready", "locked", "done", "failed", "panicked"}

\* The step of call i that runs lines 154-156.
Finalizes(i) == Accepting(i) /\ tpc'[i] \in {"ready", "panicked"}

(* C17: the contexts of a call are fed only while the call is in its read  *)
(* loop, before and after the step; they are finalized by one step only,   *)
(* taken when the read position is the end of the file, i.e. by the read   *)
(* that returned 0 bytes; after that step, or after a failed read, the     *)
(* call never reads, feeds or finalizes again and no contexts remain; a    *)
(* read error leaves the loop without finalizing, giving no record; and a  *)
(* file record comes from a finalizing step and from nothing else.         *)
C17_AccumulatorsAreOneShot ==
    /\ [](\A i \in Tasks :
             /\ calls[i] \in {0, 1}
             /\ Consumed(i) => ctx[i] = DefaultContexts /\ off[i] = 0 /\ calls[i] = 1
             /\ ~Accepting(i) => ctx[i] = DefaultContexts
             /\ tpc[i] = "failed" => result[i] = <<>>)
    /\ [][\A i \in Tasks :
             /\ (ctx'[i] # ctx[i] /\ ctx'[i] # DefaultContexts) =>
                   /\ tpc[i] = "read" /\ tpc'[i] = "read"
                   /\ \A a \in {"md5", "sha1", "sha256"} :
                         Len(ctx'[i][a].fed) > Len(ctx[i][a].fed)
             /\ Finalizes(i) =>
                   /\ tpc[i] = "read"
                   /\ off[i] = Len(content[files[i]])
                   /\ tpc'[i] = "ready" =>
                         SameDigests(result'[i][1], Digests(ctx[i]))
             /\ Consumed(i) => Consumed(i)' /\ calls'[i] = calls[i] /\ result'[i] = result[i]
             /\ (Accepting(i) /\ tpc'[i] = "failed") => result'[i] = <<>>
             /\ (result'[i] # result[i] /\ ~result'[i][1].is_dir) => Finalizes(i)]_vars

\* One call has finalized contexts fed in two chunks and holds its record
\* with no contexts left, while another call has ended in an error.
C17_Witness ==
    \E i, j \in Tasks :
        /\ tpc[i] = "ready"
        /\ Succeeded(i) /\ Populated(result[i][1])
        /\ result[i][1].size = 2
        /\ ctx[i] = DefaultContexts
        /\ tpc[j] = "failed"
        /\ kind[files[j]] = "file"


(* C18 (as claimed): every process_file call ends by returning a record or *)
(* an error: no closure ends by a panic, and the parallel loop never ends  *)
(* by resuming one in main.                                                *)
C18_NeverPanics ==
    /\ \A i \in Tasks : tpc[i] # "panicked"
    /\ pc # "panic"


\* Every record the run holds: returned by a call, collected, copied for
\* the document, or written.
AllRecords ==
    {result[i][1] : i \in {j \in Tasks : Succeeded(j)}}
        \cup Range(file_data) \cup Range(output_data)
        \cup UNION {Range(written[k]) : k \in DOMAIN written}

(* C19 (as claimed): no record describes a directory: every record has     *)
(* is_dir = false and populated digests, whether or not an entry changed   *)
(* between enumeration and processing.                                     *)
C19_NoDirectoryRecord ==
    \A r \in AllRecords : ~r.is_dir /\ Populated(r)

(* C19 (amended): every record is of a path that was not a directory when  *)
(* it was enumerated; while no entry has changed since enumeration, every  *)
(* record has is_dir = false and populated digests; a record has           *)
(* is_dir = true only for an entry that became a directory after it was    *)
(* enumerated, and then its three digests are empty.                       *)
C19_DirectoryRecordOnlyAfterChange ==
    \A r \in AllRecords :
        /\ KindAtWalk(r.file_path) # "dir"
        /\ fsChanges = 0 => ~r.is_dir /\ Populated(r)
        /\ r.is_dir => /\ fsChanges >= 1
                       /\ kind[r.file_path] = "dir"
                       /\ AllEmpty(r)
        /\ ~r.is_dir => Populated(r)

\* The written document holds a directory record, with empty digests, of
\* a path enumerated as a file, next to a file record.
C19_Witness ==
    /\ pc = "done"
    /\ \E j, k \in DOMAIN written[1] :
          /\ written[1][j].is_dir /\ AllEmpty(written[1][j])
          /\ KindAtWalk(written[1][j].file_path) = "file"
          /\ ~written[1][k].is_dir

====
